---------------------------- MODULE Spec2Model ----------------------------
(***************************************************************************)
(* git-branch-cleanup: the interactive clean-up of local branches whose    *)
(* upstream is missing or gone.                                            *)
(*                                                                         *)
(* Spec follows the callback chain of main() in src/unnamed/part_000,      *)
(* lines 1-375 (default branch, pre-cleanup check, disclaimer, forced      *)
(* retry).  SpecIndex follows main() of src/src/index.js, the earlier      *)
(* script, and SpecAll is either of the two; SpecLive is SpecAll with      *)
(* every pending callback called in the end.  SpecLister is the listing    *)
(* of index.js on every kind of line "git branch -vv" can print.  The      *)
(* second script held by part_000 (lines 377-625) is index.js with the     *)
(* forced retry added and has no action of its own here.                   *)
(*                                                                         *)
(* Every exec() and every prompt.get() is a request whose callback is one  *)
(* action.  The repository and the user are the environment: a subprocess  *)
(* may fail, a prompt may fail, and the user may give any answer the       *)
(* prompt's pattern accepts.  Only the script changes the repository.      *)
(***************************************************************************)
EXTENDS Integers, Sequences, FiniteSets, TLC

(* ------------------------------ bounds -------------------------------- *)

\* How many of the names of AllNames the repository may hold.
MaxNames == 4

(* ------------------------------ names --------------------------------- *)

\* Branch names in the order "git branch -vv" lists them (byte order).
AllNames == <<"Main", "alpha", "beta", "main", "master">>

\* The order in which the names enter the model as MaxNames grows.
Rank(n) ==
  CASE n = "Main" -> 1
    [] n = "alpha" -> 2
    [] n = "main" -> 3
    [] n = "master" -> 4
    [] n = "beta" -> 5

Names == SelectSeq(AllNames, LAMBDA n : Rank(n) <= MaxNames)

NameSet == {Names[i] : i \in 1..Len(Names)}

\* What "git rev-parse --abbrev-ref HEAD" prints on a detached HEAD.
DetachedHead == "HEAD"

\* The value null of defaultMain.
NoDefault == "null"

\* String.prototype.toLowerCase on the strings of the model.
toLowerCase(s) ==
  CASE s = "Main" -> "main"
    [] s = "MAIN" -> "main"
    [] s = "Master" -> "master"
    [] s = "HEAD" -> "head"
    [] s = "YES" -> "yes"
    [] s = "Yes" -> "yes"
    [] s = "Y" -> "y"
    [] s = "NO" -> "no"
    [] s = "No" -> "no"
    [] s = "N" -> "n"
    [] OTHER -> s

\* Answers accepted by pattern /^(yes|no|y|n)$/i.
YesNoAnswers == {"yes", "y", "no", "n", "YES", "Yes", "Y", "NO", "No", "N"}

\* Answers accepted by pattern /^(main|master)$/i.
DefaultAnswers == {"main", "master", "MAIN", "Master"}

\* Answers accepted by conform: [1, 2, 3, 4].includes(Number(value)).
OptionAnswers == {1, 2, 3, 4}

\* What a deletion subprocess can report: success, a failure whose stderr
\* holds "not fully merged", a failure with another text.  "git branch -D"
\* makes no merge check, so its failures carry another text.
DeleteResults(f) ==
  IF f THEN {"ok", "other error"} ELSE {"ok", "not fully merged", "other error"}

VARIABLES
  isRepo,                 \* fs.existsSync('.git')
  repo,                   \* name -> the kind of the branch, "absent" if there is none
  head,                   \* the checked-out branch, or DetachedHead
  pc,                     \* the pending callback
  exitCode,               \* -1 while running, else the code of process.exit
  disclaimerConfirmed,    \* part_000:15
  mainExists,             \* getDefaultMainBranch's closure
  masterExists,           \* getDefaultMainBranch's closure
  defaultMain,            \* main's closure
  branches,               \* main's closure: the stale list
  option,                 \* main's closure
  branchesToDelete,       \* main's closure
  currentBranch,          \* preCleanupCheck's closure
  finalBranchesToDelete,  \* main's closure
  phase,                  \* which deleteBranches call runs: "none", "safe", "forced", "retry"
  delBranches,            \* deleteBranches' parameter branches
  forced,                 \* deleteBranches' parameter forced
  index,                  \* deleteBranches' closure
  failedBranches,         \* deleteBranches' closure
  branch,                 \* deleteNext's local
  cmds,                   \* history: the subprocesses issued
  prompts,                \* history: the prompts shown
  delCalls,               \* history: the deletion subprocesses issued
  outcomes,               \* history: what became of each name of a pass
  disclaimerShown,        \* history: how often the warning was printed
  said,                   \* history: per question "none" or what the user meant
  checkoutResult,         \* history: "none", "ok" or "failed"
  failure,                \* history: "none", or the error that ended the run
  hidden,                 \* history: the branches that exist and whose existence check failed
  label,                  \* history: the name option 3 was printed with, "" before
  guardCalls,             \* history: how often preCleanupCheck was called
  readFailed              \* history: whether a read of the current branch failed in a deletion pass

repoVars == <<isRepo, repo, head>>
mainVars == <<mainExists, masterExists, defaultMain, branches, option, branchesToDelete,
              currentBranch, finalBranchesToDelete>>
engineVars == <<phase, delBranches, forced, index, failedBranches, branch>>
histVars == <<cmds, prompts, delCalls, outcomes, disclaimerShown, said, checkoutResult,
              failure, hidden, label, guardCalls, readFailed>>
vars == <<repoVars, pc, exitCode, disclaimerConfirmed, mainVars, engineVars, histVars>>

(* ------------------------- pure helpers ------------------------------- *)

\* The kinds of branch a repository can hold, by upstream and commit
\* subject; "absent" is a name the repository does not hold.  A run tells
\* the kinds apart in the listing only, so the runs of Spec and SpecIndex
\* start with one kind of stale branch and one that is not stale.
PlainKinds == {"absent", "active", "gone"}

\* Every kind the listing can meet: also no upstream, with a subject that
\* has no bracket, starts with one or holds one later, and a live upstream
\* whose name holds "gone".
AllKinds ==
  PlainKinds \cup {"none", "none, bracket first", "none, bracket later",
                   "active, gone in name"}

\* The abbreviated commit id "git branch -vv" prints.
Hash == "1a2b3c4"

\* What "git branch -vv" prints after the commit id of a branch of kind t:
\* the bracketed block of the upstream, when there is one, and the subject
\* of the commit.
AfterHash(t) ==
  CASE t = "none" -> "msg"
    [] t = "none, bracket first" -> "[WIP] msg"
    [] t = "none, bracket later" -> "fix [gone] msg"
    [] t = "active" -> "[origin/b] msg"
    [] t = "active, gone in name" -> "[origin/gone-b] msg"
    [] t = "gone" -> "[origin/b: gone] msg"

\* A line of the output: the mark of the first column, the first two
\* words, and the text after them.  The last piece of stdout.split('\n')
\* is the empty line.
BlankLine == [mark |-> "", words |-> <<>>, rest |-> ""]

\* The first line "git branch -vv" prints on a detached HEAD.
DetachedLine ==
  [mark |-> "*", words |-> <<"(HEAD", "detached">>, rest |-> "at 1a2b3c4) 1a2b3c4 msg"]

\* The lines of "git branch -vv" as split by main: the detached-HEAD line
\* if any, one line per local branch in listing order, the empty line.
GitBranchVV(r, h) ==
  LET present == SelectSeq(Names, LAMBDA n : r[n] # "absent")
  IN (IF h = DetachedHead THEN <<DetachedLine>> ELSE <<>>)
       \o [i \in 1..Len(present) |->
             [mark |-> IF present[i] = h THEN "*" ELSE " ",
              words |-> <<present[i], Hash>>,
              rest |-> AfterHash(r[present[i]])]]
       \o <<BlankLine>>

\* [a-f0-9]+ followed by white space: a word made of hex digits only.
isHex(w) == w = Hash

\* line.match(branchLineRegex): a first word, then a word of hex digits.
matches(line) == Len(line.words) >= 2 /\ isHex(line.words[2])

\* match[3]: the text of the bracketed block that follows the commit id,
\* "" for undefined.
trackingInfoOf(rest) ==
  CASE rest = "[WIP] msg" -> "WIP"
    [] rest = "[origin/b] msg" -> "origin/b"
    [] rest = "[origin/gone-b] msg" -> "origin/gone-b"
    [] rest = "[origin/b: gone] msg" -> "origin/b: gone"
    [] OTHER -> ""

\* trackingInfo.includes('gone')
includesGone(trackingInfo) ==
  trackingInfo = "origin/b: gone" \/ trackingInfo = "origin/gone-b"

\* Mutant of isDetached: the test for a missing block is left out.
isDetached_goneOnly(trackingInfo) == includesGone(trackingInfo)

\* Whether the branch of a matched line is pushed onto detachedBranches.
isDetached(trackingInfo) == trackingInfo = "" \/ includesGone(trackingInfo)

\* The list getDetachedBranches hands to its callback.
getDetachedBranches(lines) ==
  LET kept == SelectSeq(lines,
                LAMBDA l : matches(l) /\ isDetached(trackingInfoOf(l.rest)))
  IN [i \in 1..Len(kept) |-> kept[i].words[1]]

\* Mutant of isGitRepo: the marker is not looked at.
isGitRepo_always(marker) == TRUE

\* isGitRepo(): whether the directory .git is there (part_000:19-21).
isGitRepo(marker) == marker

\* Mutant of currentFailed: the error of the read is not looked at.
currentFailed_ignored(err) == FALSE

\* deleteNext's test of the error of getCurrentBranch (part_000:127).
currentFailed(err) == err

\* Mutant of listingFailed: the error of the listing is not looked at.
listingFailed_ignored(error) == FALSE

\* getDetachedBranches' test of the error of "git branch -vv" (part_000:82).
listingFailed(error) == error

\* Mutant of branchExists: the error of the check is not looked at.
branchExists_errIgnored(err, r, branchName) ==
  branchName \in DOMAIN r /\ r[branchName] # "absent"

\* branchExists' answer: a failed check counts as "does not exist".
branchExists(err, r, branchName) ==
  IF err THEN FALSE ELSE branchName \in DOMAIN r /\ r[branchName] # "absent"

\* getDefaultMainBranch when no question is needed.
defaultWithoutPrompt(mainEx, masterEx) ==
  IF mainEx THEN "main" ELSE IF masterEx THEN "master" ELSE NoDefault

\* The answers a user means as yes, as typed.
Affirmative == {"yes", "y", "YES", "Yes", "Y"}

\* The branch a user means by an answer to the main/master question.
SaidDefault(answer) == IF answer \in {"main", "MAIN"} THEN "main" ELSE "master"

\* Mutant of chosenDefault: the answer is taken as typed.
chosenDefault_asTyped(answer) == answer

\* The default branch getDefaultMainBranch makes of the answer (part_000:59).
chosenDefault(answer) == toLowerCase(answer)

\* What the user said, for the history.
Said(answer) == IF answer \in Affirmative THEN "yes" ELSE "no"

\* preCleanupCheck's test of the switch answer (part_000:184).
switchYes(answer) == toLowerCase(answer) = "yes" \/ toLowerCase(answer) = "y"

\* Mutant of confirmYes: `=== 'yes' || 'y'`, which is always truthy.
confirmYes_truthy(answer) == TRUE

\* Mutant of confirmYes: `!== 'no'`, so the answer "n" proceeds.
confirmYes_notNo(answer) == toLowerCase(answer) # "no"

\* confirmDisclaimer's test of the answer (part_000:225).
confirmYes(answer) == toLowerCase(answer) = "yes" \/ toLowerCase(answer) = "y"

\* Mutant of forceYes: `!== 'no'`, so the answer "n" starts the retry.
forceYes_notNo(answer) == toLowerCase(answer) # "no"

\* main's test of the forced-retry answer (part_000:338).
forceYes(answer) == toLowerCase(answer) = "yes" \/ toLowerCase(answer) = "y"

\* Mutant of checkoutFailed: the error of the checkout is not looked at.
checkoutFailed_ignored(err) == FALSE

\* Whether the checkout's callback takes the error path (part_000:187).
checkoutFailed(err) == err

\* Mutant of filterDefault: the filter keeps every name.
filterDefault_keepsAll(bs, d) == bs

\* Mutant of filterDefault: the names are compared as they are written.
filterDefault_caseSensitive(bs, d) == SelectSeq(bs, LAMBDA b : b # d)

\* Option 3: the stale list without the default branch.
filterDefault(bs, d) ==
  SelectSeq(bs, LAMBDA b : toLowerCase(b) # toLowerCase(d))

\* Mutant of filterCurrent: the names are compared as they are written.
filterCurrent_caseSensitive(bs, cur) == SelectSeq(bs, LAMBDA b : b # cur)

\* "stay": the plan without the current branch.
filterCurrent(bs, cur) ==
  SelectSeq(bs, LAMBDA b : toLowerCase(b) # toLowerCase(cur))

\* The name main prints in the line of option 3 (part_000:268-272).
option3Label(d) == IF d # NoDefault THEN d ELSE "main/master"

\* The name index.js prints in the line of option 3 (index.js:147).
ixOption3Label == "'main'/'master'"

\* Mutant of isCancel: option 4 is not told apart from the others.
isCancel_never(opt) == FALSE

\* main's test of the cancel option (part_000:289).
isCancel(opt) == opt = 4

\* Whether main filters the default branch out of the plan.
excludesDefault(opt, d) == opt = 3 /\ d # NoDefault

\* Mutant of onDefault: the guard never finds the run on the default branch.
onDefault_never(cur, d) == FALSE

\* preCleanupCheck's test "already on the default main branch".
onDefault(cur, d) == toLowerCase(cur) = toLowerCase(d)

\* Mutant of isCurrent: the name is compared with the branch the
\* pre-cleanup check read, not with the one read for this name.
isCurrent_asReadByGuard(b, cur) == b = currentBranch

\* Mutant of isCurrent: the check of the current branch is left out.
isCurrent_never(b, cur) == FALSE

\* deleteNext's test "skipping current branch".
isCurrent(b, cur) == b = cur

\* Mutant of isUnmergedFailure: every failed safe deletion is kept.
isUnmergedFailure_anyFailure(f, result) == ~f

\* Whether a failed deletion is kept for the forced retry.
isUnmergedFailure(f, result) == ~f /\ result = "not fully merged"

\* The mode of the first deleteBranches call of main.
firstPassForced(opt) == opt = 2

\* Mutant of retryBranches: the retry gets the whole plan again.
retryBranches_wholePlan(failed) == finalBranchesToDelete

\* The list main hands to the forced retry.
retryBranches(failed) == failed

(* ------------------------------ Init ---------------------------------- *)

\* The state in which node starts a script whose callback chain begins at
\* entry: any repository of branches of the given kinds, nothing asked,
\* nothing issued.
InitAt(entry, kinds) ==
  /\ isRepo \in BOOLEAN
  /\ repo \in [NameSet -> kinds]
  /\ head \in {n \in NameSet : repo[n] # "absent"} \cup {DetachedHead}
  /\ pc = entry
  /\ exitCode = -1
  /\ disclaimerConfirmed = FALSE
  /\ mainExists = FALSE
  /\ masterExists = FALSE
  /\ defaultMain = NoDefault
  /\ branches = <<>>
  /\ option = 0
  /\ branchesToDelete = <<>>
  /\ currentBranch = ""
  /\ finalBranchesToDelete = <<>>
  /\ phase = "none"
  /\ delBranches = <<>>
  /\ forced = FALSE
  /\ index = 0
  /\ failedBranches = <<>>
  /\ branch = ""
  /\ cmds = <<>>
  /\ prompts = <<>>
  /\ delCalls = <<>>
  /\ outcomes = <<>>
  /\ disclaimerShown = 0
  /\ said = [default |-> "none", switch |-> "none", confirm |-> "none", force |-> "none"]
  /\ checkoutResult = "none"
  /\ failure = "none"
  /\ hidden = {}
  /\ label = ""
  /\ guardCalls = 0
  /\ readFailed = FALSE

\* The start of src/unnamed/part_000 (lines 1-375).
Init == InitAt("start", PlainKinds)

\* The start of src/src/index.js.
InitIndex == InitAt("ix_start", PlainKinds)

(* ------------------------- process and history ------------------------ *)

\* process.exit(code) where the run ends with no error.
Exit(code) == pc' = "exited" /\ exitCode' = code /\ failure' = failure

\* console.error(...) and process.exit(code): the error joins the history.
Abort(kind, code) == pc' = "exited" /\ exitCode' = code /\ failure' = kind

\* exec(...) of a query or checkout: the command kind joins the history.
Issue(kind) == cmds' = Append(cmds, kind)

\* A failed existence check of a branch that is there: the name joins the
\* history.
Hide(err, r, branchName) ==
  hidden' = IF err /\ branchName \in DOMAIN r /\ r[branchName] # "absent"
              THEN hidden \cup {branchName}
              ELSE hidden

\* prompt.get(...): the question joins the history.
Ask(name) == prompts' = Append(prompts, name)

(* --------------------------- deleteBranches --------------------------- *)

\* Mutant of PassDone: a pass without unmerged failures reports and
\* returns without calling process.exit.
PassDone_noExit(ph, failed) ==
  IF ph = "safe" /\ Len(failed) > 0
    THEN /\ pc' = "ask_force"
         /\ Ask("force")
         /\ UNCHANGED <<exitCode, failure>>
    ELSE /\ pc' = "idle"
         /\ UNCHANGED <<exitCode, failure, prompts>>

\* main's callback of a finished deleteBranches call (part_000:321-366).
PassDone(ph, failed) ==
  IF ph = "safe" /\ Len(failed) > 0
    THEN /\ pc' = "ask_force"
         /\ Ask("force")
         /\ UNCHANGED <<exitCode, failure>>
    ELSE /\ Exit(0)
         /\ prompts' = prompts

\* Mutant of deleteNext: the pass ends at the first deletion that failed
\* as not fully merged.
deleteNext_endsEarly(bs, i, ph, failed) ==
  IF i >= Len(bs) \/ Len(failed) > 0
    THEN /\ PassDone(ph, failed)
         /\ UNCHANGED <<cmds, branch>>
         /\ index' = i
    ELSE /\ branch' = bs[i + 1]
         /\ index' = i + 1
         /\ pc' = "del_current"
         /\ Issue("current")
         /\ UNCHANGED <<exitCode, failure, prompts>>

\* deleteNext (part_000:121-126): the end of the list, or the next name and
\* the query for the current branch.
deleteNext(bs, i, ph, failed) ==
  IF i >= Len(bs)
    THEN /\ PassDone(ph, failed)
         /\ UNCHANGED <<cmds, branch>>
         /\ index' = i
    ELSE /\ branch' = bs[i + 1]
         /\ index' = i + 1
         /\ pc' = "del_current"
         /\ Issue("current")
         /\ UNCHANGED <<exitCode, failure, prompts>>

\* deleteBranches(bs, f, callback) (part_000:117-150).
deleteBranches(bs, f, ph) ==
  /\ delBranches' = bs
  /\ forced' = f
  /\ phase' = ph
  /\ failedBranches' = <<>>
  /\ deleteNext(bs, 0, ph, <<>>)

\* The callback of getCurrentBranch in deleteNext (part_000:126-133).
DeleteCurrent ==
  /\ pc = "del_current"
  /\ \E err \in BOOLEAN :
       /\ readFailed' = (readFailed \/ err)
       /\ IF currentFailed(err)
            THEN /\ Abort("current branch", 1)
                 /\ UNCHANGED <<index, branch, cmds, prompts, delCalls, outcomes>>
            ELSE IF isCurrent(branch, head)
              THEN /\ outcomes' = Append(outcomes,
                          [name |-> branch, forced |-> forced, result |-> "skipped"])
                   /\ deleteNext(delBranches, index, phase, failedBranches)
                   /\ UNCHANGED delCalls
              ELSE /\ pc' = "del_exec"
                   /\ cmds' = Append(cmds, "delete")
                   /\ delCalls' = Append(delCalls,
                          [name |-> branch, forced |-> forced, current |-> head])
                   /\ UNCHANGED <<exitCode, failure, index, branch, prompts, outcomes>>
  /\ UNCHANGED <<hidden, label, guardCalls,
                 repoVars, disclaimerConfirmed, mainVars, phase, delBranches,
                 forced, failedBranches, disclaimerShown, said, checkoutResult>>

\* The callback of the deletion subprocess (part_000:133-146).
DeleteExec ==
  /\ pc = "del_exec"
  /\ \E result \in DeleteResults(forced) :
       LET failed == IF result # "ok" /\ isUnmergedFailure(forced, result)
                       THEN Append(failedBranches, branch)
                       ELSE failedBranches
       IN /\ failedBranches' = failed
          /\ repo' = IF result = "ok" THEN [repo EXCEPT ![branch] = "absent"] ELSE repo
          /\ outcomes' = Append(outcomes,
                 [name |-> branch, forced |-> forced,
                  result |-> result])
          /\ deleteNext(delBranches, index, phase, failed)
  /\ UNCHANGED <<readFailed, hidden, label, guardCalls,
                 isRepo, head, disclaimerConfirmed, mainVars, phase, delBranches,
                 forced, delCalls, disclaimerShown, said, checkoutResult>>

(* ------------------------------- main --------------------------------- *)

\* confirmDisclaimer's callback in main (part_000:317-367).
startDeletion(opt, final) ==
  deleteBranches(final, firstPassForced(opt), IF firstPassForced(opt) THEN "forced" ELSE "safe")

\* confirmDisclaimer (part_000:206-219): straight on when already
\* confirmed, else the warning and the question.
confirmDisclaimer(opt, final) ==
  IF disclaimerConfirmed
    THEN /\ startDeletion(opt, final)
         /\ UNCHANGED disclaimerShown
    ELSE /\ disclaimerShown' = disclaimerShown + 1
         /\ pc' = "ask_disclaimer"
         /\ Ask("confirm")
         /\ UNCHANGED <<exitCode, failure, cmds, engineVars>>

\* main's callback of preCleanupCheck (part_000:306-317).
afterPreCleanup(opt, final) ==
  /\ finalBranchesToDelete' = final
  /\ IF Len(final) = 0
       THEN /\ Exit(0)
            /\ UNCHANGED <<cmds, prompts, engineVars, disclaimerShown>>
       ELSE confirmDisclaimer(opt, final)

\* preCleanupCheck up to its first request (part_000:165-169).
preCleanupCheck(opt, bs, d) ==
  /\ guardCalls' = guardCalls + 1
  /\ IF d = NoDefault
       THEN afterPreCleanup(opt, bs)
       ELSE /\ pc' = "guard_current"
            /\ Issue("current")
            /\ UNCHANGED <<exitCode, failure, finalBranchesToDelete, prompts, engineVars,
                           disclaimerShown>>

\* main (part_000:237-244) and the first branchExists call.
Main ==
  /\ pc = "start"
  /\ IF ~isGitRepo(isRepo)
       THEN Abort("no repository", 1) /\ UNCHANGED cmds
       ELSE pc' = "exists_main" /\ Issue("exists") /\ UNCHANGED <<exitCode, failure>>
  /\ UNCHANGED <<readFailed, hidden, label, guardCalls,
                 repoVars, disclaimerConfirmed, mainVars, engineVars, prompts,
                 delCalls, outcomes, disclaimerShown, said, checkoutResult>>

\* The callback of branchExists("main") (part_000:47-48).
BranchExistsMain ==
  /\ pc = "exists_main"
  /\ \E err \in BOOLEAN :
       /\ mainExists' = branchExists(err, repo, "main")
       /\ Hide(err, repo, "main")
  /\ pc' = "exists_master"
  /\ Issue("exists")
  /\ UNCHANGED <<readFailed, masterExists, label, guardCalls,
                 repoVars, exitCode, failure, disclaimerConfirmed, defaultMain, branches,
                 option, branchesToDelete, currentBranch, finalBranchesToDelete,
                 engineVars, prompts, delCalls, outcomes, disclaimerShown, said, checkoutResult>>

\* main's callback of getDefaultMainBranch up to the listing (part_000:244-251).
gotDefault(d) ==
  /\ defaultMain' = d
  /\ pc' = "listing"
  /\ Issue("list")
  /\ UNCHANGED <<exitCode, failure>>

\* The callback of branchExists("master") (part_000:48-68).
BranchExistsMaster ==
  /\ pc = "exists_master"
  /\ \E err \in BOOLEAN :
       LET exists == branchExists(err, repo, "master")
       IN /\ masterExists' = exists
          /\ Hide(err, repo, "master")
          /\ IF mainExists /\ exists
               THEN /\ pc' = "ask_default"
                    /\ Ask("default")
                    /\ UNCHANGED <<exitCode, failure, defaultMain, cmds>>
               ELSE /\ gotDefault(defaultWithoutPrompt(mainExists, exists))
                    /\ UNCHANGED prompts
  /\ UNCHANGED <<readFailed, label, guardCalls,
                 repoVars, disclaimerConfirmed, mainExists, branches, option,
                 branchesToDelete, currentBranch, finalBranchesToDelete,
                 engineVars, delCalls, outcomes, disclaimerShown, said, checkoutResult>>

\* The callback of the main/master question (part_000:57-60, 244-248).
PromptDefault ==
  /\ pc = "ask_default"
  /\ \/ Abort("prompt", 1) /\ UNCHANGED <<defaultMain, cmds, said>>
     \/ \E answer \in DefaultAnswers :
          /\ said' = [said EXCEPT !.default = SaidDefault(answer)]
          /\ gotDefault(chosenDefault(answer))
  /\ UNCHANGED <<readFailed, hidden, label, guardCalls,
                 repoVars, disclaimerConfirmed, mainExists, masterExists, branches, option,
                 branchesToDelete, currentBranch, finalBranchesToDelete,
                 engineVars, prompts, delCalls, outcomes, disclaimerShown, checkoutResult>>

\* The callback of "git branch -vv" (part_000:81-104, 251-284).
Listing ==
  /\ pc = "listing"
  /\ \E err \in BOOLEAN :
       /\ failure' = IF err THEN "listing" ELSE failure
       /\ IF listingFailed(err)
            THEN /\ pc' = "exited"
                 /\ exitCode' = 1
                 /\ UNCHANGED <<branches, prompts, label>>
            ELSE LET found == getDetachedBranches(GitBranchVV(repo, head))
                 IN /\ branches' = found
                    /\ IF Len(found) = 0
                         THEN /\ pc' = "exited"
                              /\ exitCode' = 0
                              /\ UNCHANGED <<prompts, label>>
                         ELSE /\ label' = option3Label(defaultMain)
                              /\ pc' = "ask_option"
                              /\ Ask("option")
                              /\ UNCHANGED exitCode
  /\ UNCHANGED <<readFailed, hidden, guardCalls,
                 repoVars, disclaimerConfirmed, mainExists, masterExists, defaultMain, option,
                 branchesToDelete, currentBranch, finalBranchesToDelete,
                 engineVars, cmds, delCalls, outcomes, disclaimerShown, said, checkoutResult>>

\* Mutant of planFor: the plan is every local branch, stale or not.
planFor_everyBranch(opt, bs, d) == SelectSeq(Names, LAMBDA n : repo[n] # "absent")

\* The plan main builds from the chosen option (part_000:295-298).
planFor(opt, bs, d) == IF excludesDefault(opt, d) THEN filterDefault(bs, d) ELSE bs

\* The callback of the options question (part_000:284-306).
PromptOption ==
  /\ pc = "ask_option"
  /\ \/ /\ Abort("prompt", 1)
        /\ UNCHANGED <<option, branchesToDelete, finalBranchesToDelete, cmds,
                       prompts, engineVars, disclaimerShown, guardCalls>>
     \/ \E answer \in OptionAnswers :
          /\ option' = answer
          /\ IF isCancel(answer)
               THEN /\ Exit(0)
                    /\ UNCHANGED <<branchesToDelete, finalBranchesToDelete, cmds,
                                   prompts, engineVars, disclaimerShown, guardCalls>>
               ELSE LET plan == planFor(answer, branches, defaultMain)
                    IN /\ branchesToDelete' = plan
                       /\ IF excludesDefault(answer, defaultMain) /\ Len(plan) = 0
                            THEN /\ Exit(0)
                                 /\ UNCHANGED <<finalBranchesToDelete, cmds, prompts,
                                                engineVars, disclaimerShown, guardCalls>>
                            ELSE preCleanupCheck(answer, plan, defaultMain)
  /\ UNCHANGED <<readFailed, hidden, label,
                 repoVars, disclaimerConfirmed, mainExists, masterExists, defaultMain, branches,
                 currentBranch, delCalls, outcomes, said, checkoutResult>>

\* The callback of getCurrentBranch in preCleanupCheck (part_000:169-182).
GuardCurrent ==
  /\ pc = "guard_current"
  /\ \E err \in BOOLEAN :
       IF err
         THEN /\ Abort("current branch", 1)
              /\ UNCHANGED <<currentBranch, finalBranchesToDelete, cmds, prompts,
                             engineVars, disclaimerShown>>
         ELSE /\ currentBranch' = head
              /\ IF onDefault(head, defaultMain)
                   THEN afterPreCleanup(option, branchesToDelete)
                   ELSE /\ pc' = "ask_switch"
                        /\ Ask("switch")
                        /\ UNCHANGED <<exitCode, failure, finalBranchesToDelete, cmds,
                                       engineVars, disclaimerShown>>
  /\ UNCHANGED <<readFailed, hidden, label, guardCalls,
                 repoVars, disclaimerConfirmed, mainExists, masterExists, defaultMain, branches,
                 option, branchesToDelete, delCalls, outcomes, said, checkoutResult>>

\* The callback of the switch question (part_000:182-198).
PromptSwitch ==
  /\ pc = "ask_switch"
  /\ \/ /\ Abort("prompt", 1)
        /\ UNCHANGED <<finalBranchesToDelete, cmds, prompts, engineVars,
                       disclaimerShown, said>>
     \/ \E answer \in YesNoAnswers :
          /\ said' = [said EXCEPT !.switch = Said(answer)]
          /\ IF switchYes(answer)
               THEN /\ pc' = "checkout"
                    /\ Issue("checkout")
                    /\ UNCHANGED <<exitCode, failure, finalBranchesToDelete, prompts,
                                   engineVars, disclaimerShown>>
               ELSE afterPreCleanup(option, filterCurrent(branchesToDelete, currentBranch))
  /\ UNCHANGED <<readFailed, hidden, label, guardCalls,
                 repoVars, disclaimerConfirmed, mainExists, masterExists, defaultMain, branches,
                 option, branchesToDelete, currentBranch, delCalls, outcomes,
                 checkoutResult>>

\* The callback of "git checkout <defaultMain>" (part_000:186-192).
Checkout ==
  /\ pc = "checkout"
  /\ \E err \in BOOLEAN :
       /\ checkoutResult' = IF err THEN "failed" ELSE "ok"
       /\ head' = IF err THEN head ELSE defaultMain
       /\ IF checkoutFailed(err)
            THEN /\ Abort("checkout", 1)
                 /\ UNCHANGED <<finalBranchesToDelete, cmds, prompts, engineVars,
                                disclaimerShown>>
            ELSE afterPreCleanup(option, branchesToDelete)
  /\ UNCHANGED <<readFailed, hidden, label, guardCalls,
                 isRepo, repo, disclaimerConfirmed, mainExists, masterExists, defaultMain, branches,
                 option, branchesToDelete, currentBranch, delCalls, outcomes, said>>

\* The callback of the disclaimer question (part_000:220-232).
PromptDisclaimer ==
  /\ pc = "ask_disclaimer"
  /\ \/ /\ Abort("prompt", 1)
        /\ UNCHANGED <<disclaimerConfirmed, cmds, prompts, engineVars, said>>
     \/ \E answer \in YesNoAnswers :
          /\ said' = [said EXCEPT !.confirm = Said(answer)]
          /\ IF confirmYes(answer)
               THEN /\ disclaimerConfirmed' = TRUE
                    /\ startDeletion(option, finalBranchesToDelete)
               ELSE /\ Exit(0)
                    /\ UNCHANGED <<disclaimerConfirmed, cmds, prompts, engineVars>>
  /\ UNCHANGED <<readFailed, hidden, label, guardCalls,
                 repoVars, mainVars, delCalls, outcomes, disclaimerShown,
                 checkoutResult>>

\* Mutant of forcedRetry: the retry goes through the disclaimer again and
\* the disclaimerConfirmed flag is not consulted.
forcedRetry_asksAgain(failed) ==
  /\ disclaimerShown' = disclaimerShown + 1
  /\ pc' = "ask_disclaimer"
  /\ Ask("confirm")
  /\ UNCHANGED <<exitCode, failure, cmds, engineVars, guardCalls>>

\* Mutant of forcedRetry: preCleanupCheck is gone through once more before
\* the retry.
forcedRetry_guardsAgain(failed) ==
  /\ guardCalls' = guardCalls + 1
  /\ deleteBranches(retryBranches(failed), TRUE, "retry")
  /\ UNCHANGED disclaimerShown

\* The forced retry main starts on a yes (part_000:338-346): deleteBranches
\* at once, with no further disclaimer.
forcedRetry(failed) ==
  /\ deleteBranches(retryBranches(failed), TRUE, "retry")
  /\ UNCHANGED <<disclaimerShown, guardCalls>>

\* The callback of the forced-retry question (part_000:333-350).
PromptForce ==
  /\ pc = "ask_force"
  /\ \/ /\ Abort("prompt", 1)
        /\ UNCHANGED <<cmds, prompts, engineVars, disclaimerShown, said, guardCalls>>
     \/ \E answer \in YesNoAnswers :
          /\ said' = [said EXCEPT !.force = Said(answer)]
          /\ IF forceYes(answer)
               THEN forcedRetry(failedBranches)
               ELSE /\ Exit(0)
                    /\ UNCHANGED <<cmds, prompts, engineVars, disclaimerShown, guardCalls>>
  /\ UNCHANGED <<readFailed, hidden, label,
                 repoVars, disclaimerConfirmed, mainVars, delCalls, outcomes,
                 checkoutResult>>

Next ==
  \/ Main
  \/ BranchExistsMain
  \/ BranchExistsMaster
  \/ PromptDefault
  \/ Listing
  \/ PromptOption
  \/ GuardCurrent
  \/ PromptSwitch
  \/ Checkout
  \/ PromptDisclaimer
  \/ DeleteCurrent
  \/ DeleteExec
  \/ PromptForce

Spec == Init /\ [][Next]_vars

(* ------------------------ src/src/index.js ---------------------------- *)
(* The earlier script: no default branch, no guard, no disclaimer and no   *)
(* forced retry.  Its deleteBranches has the same skip of the current      *)
(* branch; its callback exits with status 0 whatever deleteBranches says.  *)

\* The options of index.js that delete the whole list (index.js:168).
ixWholeList(opt) == opt = 1 \/ opt = 2

\* index.js' option 3: the list without main and master (index.js:178-180).
ixFilterMainMaster(bs) ==
  SelectSeq(bs, LAMBDA b : toLowerCase(b) # "main" /\ toLowerCase(b) # "master")

\* deleteNext of index.js (index.js:96-101); main's callback exits with
\* status 0 (index.js:170-174, 185-189).
ixDeleteNext(bs, i) ==
  IF i >= Len(bs)
    THEN /\ Exit(0)
         /\ UNCHANGED <<cmds, branch>>
         /\ index' = i
    ELSE /\ branch' = bs[i + 1]
         /\ index' = i + 1
         /\ pc' = "ix_del_current"
         /\ Issue("current")
         /\ UNCHANGED <<exitCode, failure>>

\* deleteBranches of index.js (index.js:93-119).
ixDeleteBranches(bs, f) ==
  /\ delBranches' = bs
  /\ forced' = f
  /\ phase' = "index"
  /\ UNCHANGED failedBranches
  /\ ixDeleteNext(bs, 0)

\* main of index.js up to the listing (index.js:123-129).
IxMain ==
  /\ pc = "ix_start"
  /\ IF ~isGitRepo(isRepo)
       THEN Abort("no repository", 1) /\ UNCHANGED cmds
       ELSE pc' = "ix_listing" /\ Issue("list") /\ UNCHANGED <<exitCode, failure>>
  /\ UNCHANGED <<readFailed, hidden, label, guardCalls,
                 repoVars, disclaimerConfirmed, mainVars, engineVars, prompts,
                 delCalls, outcomes, disclaimerShown, said, checkoutResult>>

\* The callback of "git branch -vv" in index.js (index.js:57-81, 129-158).
IxListing ==
  /\ pc = "ix_listing"
  /\ \E err \in BOOLEAN :
       /\ failure' = IF err THEN "listing" ELSE failure
       /\ IF listingFailed(err)
            THEN /\ pc' = "exited"
                 /\ exitCode' = 1
                 /\ UNCHANGED <<branches, prompts, label>>
            ELSE LET found == getDetachedBranches(GitBranchVV(repo, head))
                 IN /\ branches' = found
                    /\ IF Len(found) = 0
                         THEN /\ pc' = "exited"
                              /\ exitCode' = 0
                              /\ UNCHANGED <<prompts, label>>
                         ELSE /\ label' = ixOption3Label
                              /\ pc' = "ix_ask_option"
                              /\ Ask("option")
                              /\ UNCHANGED exitCode
  /\ UNCHANGED <<readFailed, hidden, guardCalls,
                 repoVars, disclaimerConfirmed, mainExists, masterExists, defaultMain, option,
                 branchesToDelete, currentBranch, finalBranchesToDelete,
                 engineVars, cmds, delCalls, outcomes, disclaimerShown, said,
                 checkoutResult>>

\* The callback of the options question in index.js (index.js:158-191).
IxPromptOption ==
  /\ pc = "ix_ask_option"
  /\ \/ /\ Abort("prompt", 1)
        /\ UNCHANGED <<option, branchesToDelete, cmds, engineVars>>
     \/ \E answer \in OptionAnswers :
          /\ option' = answer
          /\ IF isCancel(answer)
               THEN /\ Exit(0)
                    /\ UNCHANGED <<branchesToDelete, cmds, engineVars>>
               ELSE IF ixWholeList(answer)
                 THEN /\ branchesToDelete' = branches
                      /\ ixDeleteBranches(branches, answer = 2)
                 ELSE LET filtered == ixFilterMainMaster(branches)
                      IN /\ branchesToDelete' = filtered
                         /\ IF Len(filtered) = 0
                              THEN Exit(0) /\ UNCHANGED <<cmds, engineVars>>
                              ELSE ixDeleteBranches(filtered, FALSE)
  /\ UNCHANGED <<readFailed, hidden, label, guardCalls,
                 repoVars, disclaimerConfirmed, mainExists, masterExists, defaultMain, branches,
                 currentBranch, finalBranchesToDelete, prompts, delCalls, outcomes,
                 disclaimerShown, said, checkoutResult>>

\* The callback of getCurrentBranch in index.js' deleteNext (index.js:101-108).
IxDeleteCurrent ==
  /\ pc = "ix_del_current"
  /\ \E err \in BOOLEAN :
       /\ readFailed' = (readFailed \/ err)
       /\ IF currentFailed(err)
            THEN /\ Abort("current branch", 0)
                 /\ UNCHANGED <<index, branch, cmds, delCalls, outcomes>>
            ELSE IF isCurrent(branch, head)
              THEN /\ outcomes' = Append(outcomes,
                          [name |-> branch, forced |-> forced, result |-> "skipped"])
                   /\ ixDeleteNext(delBranches, index)
                   /\ UNCHANGED delCalls
              ELSE /\ pc' = "ix_del_exec"
                   /\ cmds' = Append(cmds, "delete")
                   /\ delCalls' = Append(delCalls,
                          [name |-> branch, forced |-> forced, current |-> head])
                   /\ UNCHANGED <<exitCode, failure, index, branch, outcomes>>
  /\ UNCHANGED <<hidden, label, guardCalls,
                 repoVars, disclaimerConfirmed, mainVars, phase, delBranches,
                 forced, failedBranches, prompts, disclaimerShown, said,
                 checkoutResult>>

\* The callback of the deletion subprocess in index.js (index.js:108-115).
IxDeleteExec ==
  /\ pc = "ix_del_exec"
  /\ \E result \in DeleteResults(forced) :
       /\ repo' = IF result = "ok" THEN [repo EXCEPT ![branch] = "absent"] ELSE repo
       /\ outcomes' = Append(outcomes,
              [name |-> branch, forced |-> forced, result |-> result])
       /\ ixDeleteNext(delBranches, index)
  /\ UNCHANGED <<readFailed, hidden, label, guardCalls,
                 isRepo, head, disclaimerConfirmed, mainVars, phase, delBranches,
                 forced, failedBranches, prompts, delCalls, disclaimerShown, said,
                 checkoutResult>>

NextIndex ==
  \/ IxMain
  \/ IxListing
  \/ IxPromptOption
  \/ IxDeleteCurrent
  \/ IxDeleteExec

SpecIndex == InitIndex /\ [][NextIndex]_vars

\* The listing of index.js on repositories of every kind of branch: the
\* run up to the callback of "git branch -vv".
InitLister == InitAt("ix_start", AllKinds)

NextLister ==
  \/ IxMain
  \/ IxListing

SpecLister == InitLister /\ [][NextLister]_vars

\* Either script, from its start.
InitAll == Init \/ InitIndex

NextAll ==
  \/ Next
  \/ NextIndex

SpecAll == InitAll /\ [][NextAll]_vars

(* ============================== claims ================================ *)

\* Every pending callback is called in the end: each subprocess returns and
\* each prompt is answered (exec and prompt.get, part_000:237-373 and
\* index.js:123-193).
Fairness == WF_vars(NextAll)

\* Either script, with every pending callback called in the end.
SpecLive == InitAll /\ [][NextAll]_vars /\ Fairness

\* The deletion calls a run has issued for name n.
CallsFor(n) == {i \in DOMAIN delCalls : delCalls[i].name = n}

\* The names of a sequence.
Range(seq) == {seq[i] : i \in DOMAIN seq}

(* C1: deleteBranches never issues a deletion subprocess, safe or forced,   *)
(* for the name that is the current branch as read just before it: the      *)
(* name is skipped and the pass goes on.  The branch that is current at a   *)
(* deletion is therefore never deleted.                                     *)
C1_CurrentNeverDeleted ==
  /\ \A i \in DOMAIN delCalls : delCalls[i].name # delCalls[i].current
  /\ pc = "del_exec" => branch # head
  /\ \A i \in DOMAIN outcomes :
       outcomes[i].result = "skipped" => CallsFor(outcomes[i].name) = {}
  /\ head \in NameSet => repo[head] # "absent"

\* A forced pass skipped the current branch and then deleted a later name.
C1_Witness ==
  \E i, j \in DOMAIN outcomes :
    /\ i < j
    /\ outcomes[i].result = "skipped" /\ outcomes[i].forced
    /\ outcomes[j].result = "ok" /\ outcomes[j].forced

(* C2 as stated: once a default branch is resolved, no deletion subprocess  *)
(* is ever issued for it, whatever the option and the guard's answer.       *)
C2_Original ==
  defaultMain # NoDefault => CallsFor(defaultMain) = {}

(* C2 amended: a deletion subprocess for the resolved default branch is     *)
(* never issued under option 3, never after the guard switched to it, and   *)
(* never while it is the checked-out branch; under options 1 and 2 it is    *)
(* issued when the default is stale and another branch stays checked out.   *)
C2_DefaultProtectedWhenExcludedOrCurrent ==
  defaultMain # NoDefault =>
    \A i \in CallsFor(defaultMain) :
      /\ option \in {1, 2}
      /\ said.switch # "yes"
      /\ delCalls[i].current # defaultMain
      /\ \E k \in DOMAIN branches : branches[k] = defaultMain

\* Under option 2 the user chose to stay on another branch and the stale
\* default branch was deleted by force.
C2_Witness ==
  /\ defaultMain # NoDefault
  /\ option = 2
  /\ said.switch = "no"
  /\ \E i \in DOMAIN outcomes :
       outcomes[i].name = defaultMain /\ outcomes[i].result = "ok"

(* C3: the first deletion subprocess is issued only after the disclaimer    *)
(* was shown and the user affirmed it with yes or y; deleteBranches is not  *)
(* reached without that affirmation.                                        *)
C3_DeletionOnlyAfterAffirmation ==
  (phase # "none" \/ Len(delCalls) > 0 \/ "delete" \in Range(cmds)) =>
    /\ said.confirm = "yes"
    /\ disclaimerShown >= 1
    /\ "confirm" \in Range(prompts)
    /\ disclaimerConfirmed

\* A deletion subprocess has been issued.
C3_Witness == Len(delCalls) > 0 /\ said.confirm = "yes"

(* C4: when the answer to the disclaimer is not yes/y the run is cancelled: *)
(* exit status 0 and no deletion subprocess at any point of the run.        *)
C4_DeclinedDisclaimerCancels ==
  said.confirm = "no" =>
    /\ pc = "exited"
    /\ exitCode = 0
    /\ Len(delCalls) = 0
    /\ "delete" \notin Range(cmds)
    /\ phase = "none"
    /\ ~disclaimerConfirmed

\* The user declined the disclaimer with a plan in hand.
C4_Witness == said.confirm = "no" /\ Len(finalBranchesToDelete) > 0

(* C5: the disclaimer is shown at most once per run, also when a forced     *)
(* retry follows the safe pass; disclaimerConfirmed starts false, becomes   *)
(* true at most once and never goes back.                                   *)
C5_DisclaimerOnce ==
  /\ ~disclaimerConfirmed /\ disclaimerShown = 0
  /\ [][/\ disclaimerConfirmed => disclaimerConfirmed'
        /\ disclaimerShown' <= 1
        /\ disclaimerConfirmed => disclaimerShown' = disclaimerShown
        /\ (~disclaimerConfirmed /\ disclaimerConfirmed') => disclaimerShown = 1]_vars

\* A forced retry runs after an affirmed disclaimer.
C5_Witness == phase = "retry" /\ disclaimerConfirmed /\ disclaimerShown = 1

\* The names whose safe deletion failed as not fully merged, in the order
\* in which the safe pass met them.
UnmergedInSafePass ==
  LET hit == SelectSeq(outcomes,
               LAMBDA o : ~o.forced /\ o.result = "not fully merged")
  IN [i \in 1..Len(hit) |-> hit[i].name]

\* The outcomes of the safe pass.
SafeOutcomes == SelectSeq(outcomes, LAMBDA o : ~o.forced)

\* The deletion calls issued in forced mode.
ForcedCalls == SelectSeq(delCalls, LAMBDA c : c.forced)

(* C6: after a safe pass that left not-fully-merged failures, a declined    *)
(* forced-retry offer ends the run with no forced deletion subprocess for   *)
(* any branch; a failed branch is retried in forced mode only on a yes.     *)
C6_DeclinedRetryForcesNothing ==
  /\ said.force = "no" =>
       /\ pc = "exited" /\ exitCode = 0
       /\ Len(ForcedCalls) = 0
       /\ phase = "safe"
       /\ \A i \in DOMAIN UnmergedInSafePass : repo[UnmergedInSafePass[i]] # "absent"
  /\ (option \in {1, 3} /\ Len(ForcedCalls) > 0) => said.force = "yes"
  /\ phase = "retry" => said.force = "yes"

\* The user declined the retry of a safe pass that left unmerged branches.
C6_Witness ==
  said.force = "no" /\ Len(UnmergedInSafePass) > 0 /\ pc = "exited"

(* C7: the forced-retry offer appears only after a safe pass (option 1 or   *)
(* 3) went through its whole plan and left at least one failure with the    *)
(* not-fully-merged text: never after option 2, after a safe pass with no   *)
(* such failure, or when all failures were of another kind.                 *)
C7_OfferOnlyAfterUnmergedFailure ==
  ("force" \in Range(prompts) \/ pc = "ask_force" \/ said.force # "none") =>
    /\ option \in {1, 3}
    /\ Len(UnmergedInSafePass) > 0
    /\ Len(SafeOutcomes) = Len(finalBranchesToDelete)
    /\ Len(SelectSeq(prompts, LAMBDA q : q = "force")) = 1

\* The offer is on screen after a safe pass with an unmerged failure and a
\* failure of another kind.
C7_Witness ==
  /\ pc = "ask_force"
  /\ \E i \in DOMAIN outcomes : outcomes[i].result = "other error"

(* C8: an affirmed forced retry runs in forced mode on exactly the branches *)
(* whose safe deletion failed as not fully merged, in plan order; a branch  *)
(* deleted, skipped or failed otherwise in the safe pass gets no forced     *)
(* deletion call.                                                           *)
C8_RetryExactlyUnmerged ==
  /\ phase = "retry" =>
       /\ forced
       /\ delBranches = UnmergedInSafePass
       /\ \A i \in DOMAIN ForcedCalls : ForcedCalls[i].name \in Range(UnmergedInSafePass)
       /\ \A i, j \in DOMAIN ForcedCalls :
            i < j =>
              \E a, b \in DOMAIN finalBranchesToDelete :
                /\ a < b
                /\ finalBranchesToDelete[a] = ForcedCalls[i].name
                /\ finalBranchesToDelete[b] = ForcedCalls[j].name
  /\ (phase = "retry" /\ pc = "exited" /\ exitCode = 0) =>
       [i \in DOMAIN ForcedCalls |-> ForcedCalls[i].name]
         = SelectSeq(UnmergedInSafePass, LAMBDA n : n # head)

\* The retry finished after forced calls for two unmerged branches, while
\* another branch of the plan had been deleted in the safe pass.
C8_Witness ==
  /\ phase = "retry" /\ pc = "exited"
  /\ Len(ForcedCalls) = 2
  /\ \E i \in DOMAIN outcomes : ~outcomes[i].forced /\ outcomes[i].result = "ok"

\* Two names that differ at most in the case of their letters.
SameIgnoringCase(a, b) == a = b \/ {a, b} = {"Main", "main"}

\* seq without the names that are cur up to case, by recursion on seq.
RECURSIVE WithoutName(_, _)
WithoutName(seq, cur) ==
  IF seq = <<>> THEN <<>>
  ELSE IF SameIgnoringCase(Head(seq), cur) THEN WithoutName(Tail(seq), cur)
  ELSE <<Head(seq)>> \o WithoutName(Tail(seq), cur)

(* C9: in the guard, with a default resolved and another branch current,    *)
(* the answer "stay" yields the input plan without the current branch's     *)
(* name (compared without regard to case), the other names kept in order;   *)
(* the current branch is then never passed to the deletion engine.          *)
C9_StayRemovesCurrent ==
  said.switch = "no" =>
    /\ defaultMain # NoDefault
    /\ ~SameIgnoringCase(currentBranch, defaultMain)
    /\ finalBranchesToDelete =
         WithoutName(branchesToDelete, currentBranch)
    /\ currentBranch \notin Range(delBranches)
    /\ \A i \in DOMAIN outcomes : outcomes[i].name # currentBranch
    /\ CallsFor(currentBranch) = {}

\* The user stayed on "main" with default "master"; "Main" and "main" left
\* the plan and a remaining name went to the deletion engine.
C9_Witness ==
  /\ said.switch = "no"
  /\ currentBranch = "main"
  /\ "Main" \in Range(branchesToDelete)
  /\ Len(finalBranchesToDelete) >= 2
  /\ Len(outcomes) > 0

(* C10: the answer "switch" issues a checkout of the default branch; a      *)
(* failed checkout aborts the run with a non-zero exit status before the    *)
(* disclaimer and before any deletion; a successful one passes the plan on  *)
(* unchanged.                                                               *)
C10_SwitchChecksOutOrAborts ==
  /\ Len(SelectSeq(cmds, LAMBDA c : c = "checkout")) =
       (IF said.switch = "yes" THEN 1 ELSE 0)
  /\ said.switch = "yes" => (pc = "checkout" <=> checkoutResult = "none")
  /\ checkoutResult = "failed" =>
       /\ pc = "exited" /\ exitCode # 0
       /\ disclaimerShown = 0 /\ "confirm" \notin Range(prompts)
       /\ Len(delCalls) = 0 /\ phase = "none"
  /\ checkoutResult = "ok" =>
       /\ finalBranchesToDelete = branchesToDelete
       /\ head = defaultMain

\* One run's checkout failed; the witness is the aborted run.
C10_Witness ==
  checkoutResult = "failed" /\ pc = "exited" /\ Len(branchesToDelete) > 0

\* How often x occurs in seq.
Count(seq, x) == Cardinality({i \in DOMAIN seq : seq[i] = x})

(* C11: with no default branch resolved, or with the current branch equal   *)
(* to the default branch, the pre-cleanup check hands on the plan it was    *)
(* given, asks nothing and checks nothing out; with no default branch it    *)
(* does not read the current branch either: the only reads are those of     *)
(* the deletion engine, one per name taken up.                              *)
C11_GuardPassesThrough ==
  /\ (guardCalls > 0 /\ defaultMain = NoDefault) =>
       /\ finalBranchesToDelete = branchesToDelete
       /\ "switch" \notin Range(prompts) /\ said.switch = "none"
       /\ "checkout" \notin Range(cmds) /\ checkoutResult = "none"
       /\ currentBranch = ""
       /\ phase = "none" => "current" \notin Range(cmds)
       /\ Count(cmds, "current") <= Len(outcomes) + 1
  /\ (guardCalls > 0 /\ defaultMain # NoDefault /\ currentBranch # ""
        /\ SameIgnoringCase(currentBranch, defaultMain)) =>
       /\ finalBranchesToDelete = branchesToDelete
       /\ "switch" \notin Range(prompts) /\ said.switch = "none"
       /\ "checkout" \notin Range(cmds) /\ checkoutResult = "none"

\* The check found the run on the default branch and the plan went on to
\* the disclaimer.
C11_Witness ==
  /\ guardCalls = 1
  /\ defaultMain = "main" /\ currentBranch = "main"
  /\ "confirm" \in Range(prompts)
  /\ Len(finalBranchesToDelete) > 0

\* The check ran with no default branch and the deletion engine is at work.
C11_NoDefaultReached ==
  guardCalls = 1 /\ defaultMain = NoDefault /\ pc = "del_current" /\ Len(outcomes) > 0

(* C12: a run that shows the disclaimer or issues a deletion has gone       *)
(* through the pre-cleanup check exactly once, and did so before the        *)
(* disclaimer and before the first deletion; the forced retry starts        *)
(* without another check.                                                   *)
C12_GuardOnceBeforeDisclaimerAndDeletion ==
  /\ guardCalls = 0
  /\ [][/\ guardCalls' <= 1
        /\ (disclaimerShown' > 0 \/ "confirm" \in Range(prompts')
              \/ Len(delCalls') > 0 \/ phase' # "none") => guardCalls' = 1
        /\ guardCalls' # guardCalls =>
             /\ disclaimerShown = 0 /\ "confirm" \notin Range(prompts)
             /\ Len(delCalls) = 0 /\ phase = "none"
        /\ (phase' = "retry" \/ phase = "retry") => guardCalls' = guardCalls]_vars

\* A forced retry is issuing a deletion in a run whose check read the
\* current branch.
C12_Witness ==
  /\ guardCalls = 1 /\ currentBranch # ""
  /\ phase = "retry" /\ pc = "del_exec"

(* C13: once getDefaultMainBranch has answered, the default branch is what  *)
(* the policy table gives for the two existence answers: both exist, the    *)
(* user was asked once and the branch meant by the answer, in lower case,   *)
(* is the default; one exists, it is the default and nothing was asked;     *)
(* none exists, there is no default and nothing was asked.  The line of     *)
(* option 3, once printed, names the default branch.                        *)
C13_DefaultFollowsPolicyTable ==
  /\ Count(prompts, "default") <= 1
  /\ "default" \in Range(prompts) => mainExists /\ masterExists
  /\ "list" \in Range(cmds) =>
       /\ (mainExists /\ masterExists) =>
            /\ "default" \in Range(prompts)
            /\ said.default \in {"main", "master"}
            /\ defaultMain = said.default
       /\ (mainExists /\ ~masterExists) =>
            defaultMain = "main" /\ "default" \notin Range(prompts)
       /\ (~mainExists /\ masterExists) =>
            defaultMain = "master" /\ "default" \notin Range(prompts)
       /\ (~mainExists /\ ~masterExists) =>
            defaultMain = NoDefault /\ "default" \notin Range(prompts)
  /\ (label # "" /\ defaultMain # NoDefault) => label = defaultMain
  /\ "option" \in Range(prompts) => label # ""

\* Both branches exist, the user typed an answer meaning master (the
\* pattern accepts "Master" too) and option 3 was printed with that name.
C13_Witness ==
  /\ mainExists /\ masterExists
  /\ said.default = "master"
  /\ defaultMain = "master"
  /\ label = "master"
  /\ "option" \in Range(prompts)

\* Whether a branch is in the repository.
Present(n) == n \in DOMAIN repo /\ repo[n] # "absent"

\* What the policy table gives for two existence answers when no question
\* is needed.
PolicyDefault(m, k) ==
  CASE m /\ ~k -> "main"
    [] ~m /\ k -> "master"
    [] ~m /\ ~k -> NoDefault

(* C14: an existence check that fails counts as "the branch does not        *)
(* exist": the run goes on to the second check and to the listing, the      *)
(* only error getDefaultMainBranch can report is that of its prompt, and    *)
(* the default branch is what the policy table gives with the names whose   *)
(* check failed taken as absent.                                            *)
C14_FailedExistenceCheckMeansAbsent ==
  /\ "main" \in hidden => ~mainExists
  /\ "master" \in hidden => ~masterExists
  /\ pc \in {"exists_main", "exists_master"} => exitCode = -1 /\ failure = "none"
  /\ (pc = "exited" /\ "exists" \in Range(cmds)) =>
       /\ Count(cmds, "exists") = 2
       /\ \/ "list" \in Range(cmds)
          \/ failure = "prompt" /\ prompts = <<"default">> /\ hidden = {}
  /\ ("list" \in Range(cmds) /\ Len(delCalls) = 0) =>
       LET m == Present("main") /\ "main" \notin hidden
           k == Present("master") /\ "master" \notin hidden
       IN /\ mainExists = m /\ masterExists = k
          /\ IF m /\ k
               THEN "default" \in Range(prompts) /\ defaultMain \in {"main", "master"}
               ELSE "default" \notin Range(prompts) /\ defaultMain = PolicyDefault(m, k)

\* Both branches are there, the check of master failed, main became the
\* default without a question and the run went on to the options.
C14_Witness ==
  /\ hidden = {"master"}
  /\ Present("main") /\ Present("master")
  /\ defaultMain = "main"
  /\ prompts = <<"option">>

\* The listing ran and found no stale branch.
EmptyListing ==
  /\ "list" \in Range(cmds)
  /\ pc \notin {"listing", "ix_listing"}
  /\ failure # "listing"
  /\ Len(branches) = 0

(* C15: when the listing finds no stale branch the run exits with status 0  *)
(* and has asked the user nothing at any point, the main/master question    *)
(* included.                                                                *)
C15_Original ==
  EmptyListing => pc = "exited" /\ exitCode = 0 /\ prompts = <<>>

\* What main of part_000 does on an empty listing: it exits with status 0
\* and asks nothing after the listing; the only question such a run can
\* hold is the main/master one, asked before the listing.
C15_EmptyListingEndsRun ==
  EmptyListing =>
    /\ pc = "exited" /\ exitCode = 0
    /\ prompts \in {<<>>, <<"default">>}
    /\ prompts = <<"default">> => mainExists /\ masterExists
    /\ cmds[Len(cmds)] = "list"

(* C16: option 4 ends the run at once with exit status 0 and without side   *)
(* effects: no checkout, no read of the current branch and no deletion was  *)
(* issued before it and none is issued after it, and neither the switch     *)
(* question nor the disclaimer is shown.                                    *)
C16_CancelEndsRunWithoutEffects ==
  option = 4 =>
    /\ pc = "exited" /\ exitCode = 0 /\ failure = "none"
    /\ Range(cmds) \cap {"checkout", "current", "delete"} = {}
    /\ Len(delCalls) = 0 /\ Len(outcomes) = 0 /\ phase = "none"
    /\ checkoutResult = "none"
    /\ prompts[Len(prompts)] = "option"
    /\ Range(prompts) \cap {"switch", "confirm", "force"} = {}
    /\ disclaimerShown = 0 /\ guardCalls = 0
    /\ branchesToDelete = <<>>

\* The user cancelled with a stale list on the screen.
C16_Witness == option = 4 /\ Len(branches) > 1 /\ pc = "exited"

(* C17: with option 3 and a default branch, the plan is the stale list      *)
(* without the names equal to the default branch's up to case, before the   *)
(* pre-cleanup check and the deletion engine get it, so that no deletion    *)
(* is issued for such a name; when nothing is left the run exits with       *)
(* status 0 and shows neither the switch question nor the disclaimer.       *)
C17_Option3RemovesDefaultFirst ==
  (option = 3 /\ defaultMain # NoDefault) =>
    /\ branchesToDelete = WithoutName(branches, defaultMain)
    /\ \A n \in Range(branchesToDelete) \cup Range(finalBranchesToDelete)
                  \cup Range(delBranches) : ~SameIgnoringCase(n, defaultMain)
    /\ \A i \in DOMAIN delCalls : ~SameIgnoringCase(delCalls[i].name, defaultMain)
    /\ \A i \in DOMAIN outcomes : ~SameIgnoringCase(outcomes[i].name, defaultMain)
    /\ Len(branchesToDelete) = 0 =>
         /\ pc = "exited" /\ exitCode = 0 /\ failure = "none"
         /\ guardCalls = 0 /\ "current" \notin Range(cmds)
         /\ Range(prompts) \cap {"switch", "confirm"} = {}
         /\ disclaimerShown = 0

\* Option 3 with default "main" and both "Main" and "main" stale: the two
\* left the plan and a deletion was issued for another name.
C17_Witness ==
  /\ option = 3 /\ defaultMain = "main"
  /\ {"Main", "main"} \subseteq Range(branches)
  /\ Len(delCalls) > 0

\* Option 3 left nothing to delete.
C17_EmptyPlanReached ==
  option = 3 /\ defaultMain # NoDefault /\ Len(branches) > 0 /\ Len(branchesToDelete) = 0

\* The listing has been made and classified.
Listed ==
  /\ "list" \in Range(cmds)
  /\ pc \notin {"listing", "ix_listing"}
  /\ failure # "listing"

\* The texts that can follow a commit id, by how they begin: with no
\* bracketed block, with a block that holds "gone", with a block that does
\* not.
NoBlock == {"msg", "fix [gone] msg"}
BlockWithGone == {"[origin/b: gone] msg", "[origin/gone-b] msg"}
BlockWithoutGone == {"[origin/b] msg", "[WIP] msg"}

\* The lines that fit the grammar: a name, a commit id and the rest.
FitsGrammar(l) == l # BlankLine /\ l # DetachedLine

(* C18: of the lines of a listing, those that fit the grammar and have no   *)
(* bracketed block after the commit id, or a block that holds "gone" with   *)
(* whatever else, give the stale list, in the order of the listing; a line  *)
(* with a block that does not hold "gone" gives nothing, and neither does   *)
(* the empty line or the line of a detached HEAD.  The block is the one     *)
(* the grammar sees after the commit id, whether it is the upstream's or    *)
(* the beginning of the commit subject.                                     *)
C18_ClassifierFollowsGrammar ==
  Listed =>
    LET lines == GitBranchVV(repo, head)
        stale == SelectSeq(lines,
                   LAMBDA l : FitsGrammar(l) /\ l.rest \in NoBlock \cup BlockWithGone)
    IN /\ branches = [i \in 1..Len(stale) |-> stale[i].words[1]]
       /\ \A i \in DOMAIN lines :
            FitsGrammar(lines[i]) =>
              /\ lines[i].rest \in NoBlock \cup BlockWithGone \cup BlockWithoutGone
              /\ lines[i].rest \in NoBlock => lines[i].words[1] \in Range(branches)
              /\ lines[i].rest \in BlockWithGone => lines[i].words[1] \in Range(branches)
              /\ lines[i].rest \in BlockWithoutGone => lines[i].words[1] \notin Range(branches)
       /\ Range(branches) \subseteq NameSet

\* A listing on a detached HEAD held lines of the three sorts: "alpha" with
\* a block holding "gone" was emitted, "main" with a block not holding it
\* was not, "master" with no block was.
C18_Witness ==
  /\ Listed
  /\ head = DetachedHead
  /\ repo["alpha"] = "active, gone in name" /\ "alpha" \in Range(branches)
  /\ repo["main"] = "none, bracket first" /\ "main" \notin Range(branches)
  /\ repo["master"] = "none, bracket later" /\ "master" \in Range(branches)

\* The tracking status of a branch of kind t.
TrackingStatus(t) ==
  CASE t \in {"none", "none, bracket first", "none, bracket later"} -> "NONE"
    [] t \in {"active", "active, gone in name"} -> "ACTIVE"
    [] t = "gone" -> "GONE"

(* C19: a branch is in the stale list exactly when its tracking status is   *)
(* NONE or GONE, whatever the name of its upstream and the subject of its   *)
(* commit.                                                                  *)
C19_Original ==
  Listed =>
    \A n \in NameSet :
      repo[n] # "absent" =>
        (n \in Range(branches) <=> TrackingStatus(repo[n]) \in {"NONE", "GONE"})

\* The same on the branches whose upstream name holds no "gone" and whose
\* commit subject does not start with a bracket: there the stale list is
\* the branches of status NONE or GONE.
C19_PlainBranchesByStatus ==
  Listed =>
    \A n \in NameSet :
      repo[n] \in {"none", "none, bracket later", "active", "gone"} =>
        (n \in Range(branches) <=> TrackingStatus(repo[n]) \in {"NONE", "GONE"})

(* C20: a run ends with exit status 0 exactly when it ended without an      *)
(* error (nothing to do, cancelled, declined, finished) and with another    *)
(* status exactly when an error ended it (no repository, a failed listing,  *)
(* prompt, checkout or read of the current branch).                         *)
C20_Original ==
  /\ pc = "exited" => (exitCode = 0 <=> failure = "none")
  /\ pc # "exited" => (exitCode = -1 /\ failure = "none")

\* The same for the errors index.js answers with a non-zero status: all
\* but a failed read of the current branch during the deletion pass, after
\* which it prints the error and exits with status 0.
C20_ExitStatusButDeletionError ==
  /\ pc = "exited" =>
       /\ failure \notin {"none", "current branch"} <=> exitCode = 1
       /\ exitCode \in {0, 1}
  /\ pc # "exited" => (exitCode = -1 /\ failure = "none")

(* C21: in a directory with no repository marker the run ends at its first  *)
(* step with a non-zero exit status: no subprocess of any sort and no       *)
(* prompt is issued before or after.                                        *)
C21_NoRepositoryFailsFast ==
  ~isRepo =>
    /\ \/ pc \in {"start", "ix_start"} /\ exitCode = -1
       \/ pc = "exited" /\ exitCode > 0 /\ failure = "no repository"
    /\ cmds = <<>> /\ prompts = <<>>
    /\ Len(delCalls) = 0 /\ Len(outcomes) = 0
    /\ checkoutResult = "none" /\ disclaimerShown = 0 /\ guardCalls = 0

\* A run ended outside a repository, in a directory that would have held
\* a stale branch.
C21_Witness ==
  /\ ~isRepo /\ pc = "exited"
  /\ \E n \in NameSet : repo[n] = "gone"

(* C22: a failed listing ends the run with a non-zero exit status: there    *)
(* is no stale list, not a partial one either, the options are not printed  *)
(* nor asked for, and no read of the current branch, no checkout and no     *)
(* deletion is issued.                                                      *)
C22_ListingFailureAborts ==
  failure = "listing" =>
    /\ pc = "exited" /\ exitCode > 0
    /\ branches = <<>> /\ branchesToDelete = <<>> /\ finalBranchesToDelete = <<>>
    /\ label = "" /\ option = 0
    /\ Range(prompts) \subseteq {"default"}
    /\ cmds[Len(cmds)] = "list"
    /\ Range(cmds) \cap {"current", "checkout", "delete"} = {}
    /\ Len(delCalls) = 0 /\ Len(outcomes) = 0 /\ phase = "none"

\* The listing failed in a repository that holds a stale branch.
C22_Witness ==
  /\ failure = "listing"
  /\ defaultMain = "master"
  /\ \E n \in NameSet : repo[n] = "gone"

\* The outcomes of the pass that runs or ran last.
PassOutcomes ==
  IF phase = "retry" THEN SelectSeq(outcomes, LAMBDA o : o.forced) ELSE outcomes

\* The deletions issued by the pass that runs or ran last.
PassCalls ==
  IF phase = "retry" THEN SelectSeq(delCalls, LAMBDA c : c.forced) ELSE delCalls

\* The names of a sequence of records.
NamesOf(seq) == [i \in DOMAIN seq |-> seq[i].name]

\* The first n elements of seq.
Prefix(seq, n) == [i \in 1..n |-> seq[i]]

\* The plan main handed to the pass.
PlanOfPass ==
  IF phase = "retry" THEN UnmergedInSafePass ELSE finalBranchesToDelete

\* The pass has come to its end without an error.
PassFinished ==
  phase # "none" /\ pc \notin {"del_current", "del_exec"} /\ failure # "current branch"

\* The state of a pass: its plan is the one it was given; the outcomes so
\* far are those of the first names of the plan, one each and in order;
\* the deletions issued are those of the names not skipped, one each and in
\* order; at its end every name has its outcome.
PassInOrder ==
  phase # "none" =>
    /\ delBranches = PlanOfPass
    /\ Len(PassOutcomes) <= Len(delBranches)
    /\ NamesOf(PassOutcomes) = Prefix(delBranches, Len(PassOutcomes))
    /\ \A i \in DOMAIN PassOutcomes :
         PassOutcomes[i].result \in {"skipped", "ok", "not fully merged", "other error"}
    /\ pc \in {"del_current", "del_exec"} =>
         index = Len(PassOutcomes) + 1 /\ branch = delBranches[index]
    /\ NamesOf(PassCalls) =
         NamesOf(SelectSeq(PassOutcomes, LAMBDA o : o.result # "skipped"))
           \o (IF pc = "del_exec" THEN <<branch>> ELSE <<>>)
    /\ PassFinished => Len(PassOutcomes) = Len(delBranches)
    /\ phase = "retry" => NamesOf(SafeOutcomes) = finalBranchesToDelete

(* C23: a deletion pass takes the names of its plan in order, one at a      *)
(* time; a deletion that fails, as unmerged or otherwise, does not stop     *)
(* it: unless a read of the current branch fails, every name gets one       *)
(* outcome (skipped, deleted, failed as unmerged, failed otherwise) and at  *)
(* most one deletion; the pass changes neither its plan nor main's.         *)
C23_PassInOrderOneOutcomeEach ==
  /\ PassInOrder
  /\ [][/\ PassInOrder'
        /\ phase # "none" => finalBranchesToDelete' = finalBranchesToDelete
        /\ (phase # "none" /\ phase' = phase) => delBranches' = delBranches
        /\ Len(outcomes') <= Len(outcomes) + 1
        /\ Len(delCalls') <= Len(delCalls) + 1]_vars

\* A safe pass over three names ended after a deletion that failed as
\* unmerged, one that failed otherwise and one that went through.
C23_Witness ==
  /\ phase = "safe" /\ PassFinished
  /\ Len(delBranches) = 3
  /\ {outcomes[i].result : i \in DOMAIN outcomes} = {"ok", "not fully merged", "other error"}
  /\ outcomes[1].result # "ok"

(* C24: a read of the current branch that fails during a deletion pass      *)
(* stops the pass there: no deletion is issued for the name in hand or for  *)
(* a later name, no forced retry is offered, and the run ends with the      *)
(* error reported (part_000 also exits with a non-zero status; the status   *)
(* of index.js is the matter of C20).  A pass reports no other error.       *)
C24_ReadFailureStopsPass ==
  /\ readFailed =>
       /\ pc = "exited" /\ failure = "current branch"
       /\ phase \in {"safe", "forced", "retry"} => exitCode = 1
       /\ Len(PassOutcomes) < Len(delBranches)
       /\ branch = delBranches[Len(PassOutcomes) + 1]
       /\ NamesOf(PassCalls) =
            NamesOf(SelectSeq(PassOutcomes, LAMBDA o : o.result # "skipped"))
       /\ \A i \in DOMAIN PassCalls :
            \E j \in 1..Len(PassOutcomes) : delBranches[j] = PassCalls[i].name
       /\ cmds[Len(cmds)] = "current"
       /\ phase # "retry" => "force" \notin Range(prompts)
       /\ Count(prompts, "force") <= 1
  /\ (phase # "none" /\ failure # "none") =>
       \/ readFailed
       \/ /\ failure = "prompt" /\ phase = "safe"
          /\ prompts[Len(prompts)] = "force"
          /\ Len(PassOutcomes) = Len(delBranches)

\* The second read of a safe pass over three names failed.
C24_Witness ==
  /\ readFailed
  /\ phase = "safe"
  /\ Len(outcomes) = 1 /\ Len(delBranches) = 3

\* Whether every element of sub is an element of seq.
Within(sub, seq) == Range(sub) \subseteq Range(seq)

(* C25: a run lists once, and every branch it issues a deletion for, in     *)
(* the safe pass, the forced pass or the forced retry, is in the stale      *)
(* list of that listing: the option's filter, the pre-cleanup check and     *)
(* the retry only take names out.  No branch with a live upstream is ever   *)
(* handed to a deletion.                                                    *)
C25_OnlyListedBranchesDeleted ==
  /\ Count(cmds, "list") <= 1
  /\ Within(branchesToDelete, branches)
  /\ Within(finalBranchesToDelete, branchesToDelete)
  /\ Within(delBranches, finalBranchesToDelete)
  /\ Within(failedBranches, delBranches)
  /\ \A i \in DOMAIN delCalls :
       /\ delCalls[i].name \in Range(branches)
       /\ repo[delCalls[i].name] \in {"gone", "absent"}
  /\ \A i \in DOMAIN outcomes : outcomes[i].name \in Range(branches)
  /\ \A n \in NameSet : repo[n] = "absent" \/ n \in Range(branches) \/ CallsFor(n) = {}

\* A forced retry issued a deletion in a repository that also holds a
\* branch with a live upstream, after the user stayed on the current
\* branch.
C25_Witness ==
  /\ phase = "retry" /\ pc = "del_exec"
  /\ said.switch = "no"
  /\ \E n \in NameSet : repo[n] = "active"
  /\ Len(finalBranchesToDelete) < Len(branches)

\* Whether a deletion pass has been started.
DeletionStarted == phase # "none"

\* The outcomes recorded for name n.
OutcomesFor(n) == {i \in DOMAIN outcomes : outcomes[i].name = n}

(* C26: with a default branch resolved, once deletion has started on a      *)
(* working tree that is on the default branch, no deletion is ever issued   *)
(* for the default branch, under any option: where the plan holds it        *)
(* (options 1 and 2), each pass skips it as the current branch.  A switch   *)
(* the guard made leaves the working tree on the default branch.            *)
C26_DefaultSkippedWhenCurrent ==
  (defaultMain # NoDefault /\ DeletionStarted) =>
    /\ (said.switch = "yes") => (checkoutResult = "ok" /\ head = defaultMain)
    /\ (head = defaultMain) =>
         /\ CallsFor(defaultMain) = {}
         /\ \A i \in OutcomesFor(defaultMain) : outcomes[i].result = "skipped"
         /\ repo[defaultMain] # "absent"
         /\ (PassFinished /\ defaultMain \in Range(PlanOfPass)) =>
              \E i \in DOMAIN PassOutcomes :
                /\ PassOutcomes[i].name = defaultMain
                /\ PassOutcomes[i].result = "skipped"

\* After the guard's switch succeeded, a pass of option 1 or 2 whose plan
\* holds the default branch skipped it and went on to delete another name.
C26_Witness ==
  /\ defaultMain # NoDefault /\ head = defaultMain
  /\ said.switch = "yes" /\ checkoutResult = "ok"
  /\ option \in {1, 2}
  /\ defaultMain \in Range(delBranches)
  /\ \E i \in OutcomesFor(defaultMain) : outcomes[i].result = "skipped"
  /\ Len(delCalls) > 0

\* The controller has a pending call: some callback can be called.
HasPendingCall == ENABLED NextAll

\* A step of a pass takes the next name of the plan: index grows by one,
\* and a new pass starts at its first name.
PassStep ==
  \/ index' = index
  \/ index' = index + 1
  \/ phase' # phase /\ index' \in {0, 1}

\* A pass has taken no more names than its plan holds, and has an outcome
\* and a deletion for no more names than it has taken.
PassWithinPlan ==
  /\ index <= Len(delBranches)
  /\ Len(PassOutcomes) <= index
  /\ Len(PassCalls) <= index
  /\ Len(PassOutcomes) + 1 >= index

(* C27: when every subprocess returns and every prompt is answered, every   *)
(* run of either script reaches a process exit, and only one: nothing       *)
(* happens after the exit, and before it the controller always has a        *)
(* pending call.  A deletion pass takes one step per name of its plan and   *)
(* no more.                                                                 *)
C27_EveryRunExitsOnce ==
  /\ <>(pc = "exited")
  /\ [](pc = "exited" => exitCode \in {0, 1})
  /\ [][pc # "exited"]_vars
  /\ [](pc # "exited" => HasPendingCall)
  /\ [](PassWithinPlan)
  /\ [][PassStep]_vars

\* A run has exited after a forced retry over two names or more, having
\* asked every question.
C27_Witness ==
  /\ pc = "exited" /\ exitCode = 0
  /\ phase = "retry"
  /\ Len(delBranches) >= 2 /\ index = Len(delBranches)
  /\ said.switch # "none" /\ said.confirm = "yes" /\ said.force = "yes"

=============================================================================
